---- MODULE Spec2Model ----
(***************************************************************************)
(* Model of geneparse's IMPUTE2 reader (src/geneparse/impute2.py): the     *)
(* side-car index (generate_index, write_index, read_index, get_index),    *)
(* the reader's construction (duplicate renaming, multiallelic flags) and  *)
(* its reads (get_variant_by_name, get_variant_genotypes,                  *)
(* get_variants_in_region, iter_variants, iter_genotypes), on one file     *)
(* handle with one cursor.                                                 *)
(*                                                                         *)
(* Text is a string.  A line of the data file is the sequence of its       *)
(* space-separated fields                                                  *)
(*   <<chrom, name, pos, a1, a2, p0, p1, p2, ...>>                         *)
(* and a byte offset is the number of characters before a line, newline    *)
(* included.  Probabilities are written with two decimals ("0.05") and     *)
(* held in hundredths once parsed.                                         *)
(***************************************************************************)
EXTENDS Integers, Sequences, FiniteSets, TLC

VARIABLES
    file,          \* the data file: a sequence of lines
    sidecar,       \* the ".idx" file: NoFile or its decompressed CSV payload
    rstate,        \* "none" (no reader yet), "open", "failed" (__init__ raised)
    has_index,     \* Impute2Reader.has_index
    impute2_index, \* Impute2Reader._impute2_index: rows in file order
    index_has_location, \* Impute2Reader._index_has_location
    has_duplicated,\* Impute2Reader._has_duplicated
    dup_markers,   \* Impute2Reader._dup_markers: pairs <<marker, aliases>>
    cursor,        \* position of Impute2Reader._impute2_file
    scan_pc,       \* the iter_genotypes generator: "none", "created", "running", "done", "failed"
    scan_i,        \* its enumerate() counter: lines it has consumed
    scan_clean,    \* no other read moved the cursor since the generator started
    scan_out,      \* what the generator yielded so far (kept while scan_clean)
    op,            \* the last operation called on the reader
    arg,           \* its argument
    result,        \* what it returned or raised
    warnings,      \* number of "Multiallelic variants are not detected" warnings logged
    d_prob,        \* dosage decoding alone: the probability fields of a line
    d_t,           \* dosage decoding alone: the threshold
    d_out          \* dosage decoding alone: the decoded dosages

vars == <<file, sidecar, rstate, has_index, impute2_index, index_has_location, has_duplicated,
          dup_markers, cursor, scan_pc, scan_i, scan_clean, scan_out, op, arg,
          result, warnings, d_prob, d_t, d_out>>

reader_vars == <<rstate, has_index, impute2_index, index_has_location,
                 has_duplicated, dup_markers>>
dosage_vars == <<d_prob, d_t, d_out>>

(***************************************************************************)
(* Bounds                                                                  *)
(***************************************************************************)
MaxRecords == 3
MaxWarnings == 4
MaxSamples == 2

(***************************************************************************)
(* Text helpers                                                            *)
(***************************************************************************)
DigitChars == <<"0", "1", "2", "3", "4", "5", "6", "7", "8", "9">>

\* the i-th character of a text
Char(t, i) == SubSeq(t, i, i)

DigitValue(c) ==
    CASE c = "0" -> 0 [] c = "1" -> 1 [] c = "2" -> 2 [] c = "3" -> 3 [] c = "4" -> 4
      [] c = "5" -> 5 [] c = "6" -> 6 [] c = "7" -> 7 [] c = "8" -> 8 [] c = "9" -> 9

\* "{}".format(n), and an integer cell of to_csv
RECURSIVE FormatInt(_)
FormatInt(n) ==
    IF n < 10 THEN DigitChars[n + 1]
    ELSE FormatInt(n \div 10) \o DigitChars[(n % 10) + 1]

\* int(text), and an integer cell of read_csv
RECURSIVE ParseInt(_)
ParseInt(t) ==
    IF Len(t) = 1 THEN DigitValue(t)
    ELSE 10 * ParseInt(SubSeq(t, 1, Len(t) - 1)) + DigitValue(Char(t, Len(t)))

\* float("d.dd"), in hundredths
ParseFloat(t) ==
    100 * DigitValue(Char(t, 1)) + 10 * DigitValue(Char(t, 3)) + DigitValue(Char(t, 4))

\* str.startswith
StartsWith(s, prefix) ==
    Len(prefix) <= Len(s) /\ SubSeq(s, 1, Len(prefix)) = prefix

RECURSIVE SumLen(_)
SumLen(fields) ==
    IF fields = <<>> THEN 0 ELSE Len(Head(fields)) + SumLen(Tail(fields))

\* bytes of a line: its fields, the separators between them and the newline
LineLen(line) == SumLen(line) + (Len(line) - 1) + 1

Range(s) == {s[i] : i \in 1..Len(s)}

Min(a, b) == IF a < b THEN a ELSE b

(***************************************************************************)
(* Chromosome tables                                                       *)
(***************************************************************************)
CHROM_STR_TO_INT(tok) ==
    CASE tok = "X" -> 23
      [] tok = "Y" -> 24
      [] tok = "XY" -> 25
      [] tok = "MT" -> 26
      [] OTHER -> ParseInt(tok)

CHROM_STR_ENCODE(tok) ==
    CASE tok = "23" -> "X"
      [] tok = "24" -> "Y"
      [] tok = "25" -> "XY"
      [] tok = "26" -> "MT"
      [] OTHER -> tok

(***************************************************************************)
(* Variant (geneparse.core)                                                *)
(***************************************************************************)
AlleleRank(a) ==
    CASE a = "A" -> 1 [] a = "C" -> 2 [] a = "G" -> 3 [] a = "T" -> 4

\* Variant._encode_alleles: a deterministic (sorted) tuple, None kept
NoAlleles == <<"None">>

_encode_alleles(alleles) ==
    IF alleles = NoAlleles THEN NoAlleles
    ELSE SortSeq(alleles, LAMBDA a, b : AlleleRank(a) < AlleleRank(b))

\* Variant.alleles_set
alleles_set(alleles) == Range(alleles)

Variant(name, chrom, pos, alleles) ==
    [name |-> name, chrom |-> chrom, pos |-> pos, alleles |-> _encode_alleles(alleles)]

(***************************************************************************)
(* Dosage decoding and line parsing                                        *)
(***************************************************************************)
NaN == [nan |-> TRUE, v |-> 0]
Num(x) == [nan |-> FALSE, v |-> x]

\* a mutant: the threshold itself does not call
ProbCalled_Strict(p, t) == p > t

\* prob >= self.prob_t, for one probability
ProbCalled(p, t) == p >= t

\* np.array(row[5:], dtype=float) reshaped to (n // 3, 3): sample i's triple
ProbTriple(probs, i) ==
    <<ParseFloat(probs[3 * i - 2]), ParseFloat(probs[3 * i - 1]), ParseFloat(probs[3 * i])>>

\* dosage = 2 * prob[:, 2] + prob[:, 1], masked where no probability reaches t
Dosage(probs, t) ==
    [i \in 1..(Len(probs) \div 3) |->
        LET p == ProbTriple(probs, i) IN
        IF t > 0 /\ ~(\E k \in 1..3 : ProbCalled(p[k], t))
        THEN NaN
        ELSE Num(2 * p[3] + p[2])]

\* Impute2Reader(..., probability_threshold=0.9), in hundredths
prob_t == 90

_parse_impute2_line(line, t) ==
    [variant |-> Variant(line[2], CHROM_STR_ENCODE(line[1]), ParseInt(line[3]),
                         <<line[4], line[5]>>),
     dosage |-> Dosage(SubSeq(line, 6, Len(line)), t),
     reference |-> line[4],
     coded |-> line[5],
     multiallelic |-> FALSE]

(***************************************************************************)
(* Data files the model draws from                                         *)
(***************************************************************************)
\* the first five fields of the lines files are made of: <<chrom, name, pos, a1, a2>>
Markers == {
    <<"1", "r", "100", "A", "T">>,
    <<"1", "r", "100", "A", "G">>,
    <<"23", "rs", "100", "T", "A">>,
    <<"1", "r:dup1", "200", "T", "A">> }

\* the probability fields of the k-th line: every line of a file differs in them
ProbFor(k) ==
    CASE k % 3 = 1 -> <<"0.05", "0.05", "0.90">>
      [] k % 3 = 2 -> <<"0.30", "0.30", "0.40">>
      [] OTHER -> <<"0.00", "1.00", "0.00">>

Line(marker, k) == marker \o ProbFor(k)

FilesOfLen(n) == {[k \in 1..n |-> Line(m[k], k)] : m \in [1..n -> Markers]}

Files == UNION {FilesOfLen(n) : n \in 1..MaxRecords}

(***************************************************************************)
(* The data stream                                                         *)
(***************************************************************************)
RECURSIVE Offset(_, _)
\* byte offset of the k-th line of f (k = Len(f) + 1: the end of the file)
Offset(f, k) == IF k = 1 THEN 0 ELSE Offset(f, k - 1) + LineLen(f[k - 1])

FileSize(f) == Offset(f, Len(f) + 1)

RECURSIVE LineFrom(_, _, _, _)
\* the line that starts at byte offset o, looked for from line k, which starts at `at`
LineFrom(f, o, k, at) ==
    IF k > Len(f) \/ at > o THEN 0
    ELSE IF at = o THEN k
    ELSE LineFrom(f, o, k + 1, at + LineLen(f[k]))

\* the line that starts at byte offset o: its number, or 0 when none starts there
LineAt(f, o) == LineFrom(f, o, 1, 0)

(***************************************************************************)
(* The side-car index                                                      *)
(***************************************************************************)
NoFile == [exists |-> FALSE, header |-> <<>>, rows |-> <<>>]

\* a mutant: the first offset, 0, is not yielded
_seek_generator_NoZero(f) == [k \in 1..(Len(f) + 1) |-> Offset(f, Min(k + 1, Len(f) + 1))]

\* _seek_generator: 0, then f.tell() after every line
_seek_generator(f) == [k \in 1..(Len(f) + 1) |-> Offset(f, k)]

\* the columns pandas reads as integers; "name" stays text
IntColumn(c) == c # "name"

\* generate_index: the columns `cols` (zero-based) of every line under `names`,
\* and the seek column, which drops the last offset (the end of the file)
generate_index(f, cols, names) ==
    LET seeks == SubSeq(_seek_generator(f), 1, Len(f))
    IN  [columns |-> names \o <<"seek">>,
         rows |-> [k \in 1..Len(f) |->
                    [j \in 1..Len(cols) |->
                        IF IntColumn(names[j]) THEN ParseInt(f[k][cols[j] + 1])
                        ELSE f[k][cols[j] + 1]]
                    \o <<seeks[k]>>]]

\* write_index: index.to_csv(index=False), behind the check string
write_index(data) ==
    [exists |-> TRUE,
     header |-> data.columns,
     rows |-> [k \in 1..Len(data.rows) |->
                 [j \in 1..Len(data.columns) |->
                     IF IntColumn(data.columns[j]) THEN FormatInt(data.rows[k][j])
                     ELSE data.rows[k][j]]]]

\* read_index: pd.read_csv of the payload
read_index(sc) ==
    [columns |-> sc.header,
     rows |-> [k \in 1..Len(sc.rows) |->
                 [j \in 1..Len(sc.header) |->
                     IF IntColumn(sc.header[j]) THEN ParseInt(sc.rows[k][j])
                     ELSE sc.rows[k][j]]]]

\* the position of a column among the columns, 0 when absent
Column(columns, c) ==
    IF \E j \in 1..Len(columns) : columns[j] = c
    THEN CHOOSE j \in 1..Len(columns) : columns[j] = c
    ELSE 0

\* the cell of row k under column c
Cell(df, k, c) == df.rows[k][Column(df.columns, c)]

\* get_index: the columns asked for, and seek, must be in the file
IndexColumnsOk(df) ==
    \A c \in {"chrom", "name", "pos", "seek"} : Column(df.columns, c) # 0

(***************************************************************************)
(* Impute2Reader.__init__: duplicated markers and multiallelic sites       *)
(***************************************************************************)
Names(df) == [k \in 1..Len(df.rows) |-> Cell(df, k, "name")]

\* set_index("name", verify_integrity=True) succeeds
UniqueNames(names) == \A i, j \in 1..Len(names) : names[i] = names[j] => i = j

\* a mutant: name.duplicated(), which keeps the first occurrence
Duplicated_KeepFirst(names, k) == \E j \in 1..(k - 1) : names[j] = names[k]

\* name.duplicated(keep=False)
Duplicated(names, k) == \E j \in 1..Len(names) : j # k /\ names[j] = names[k]

\* counter[marker] when the k-th row is renamed
DupCount(names, k) == Cardinality({j \in 1..k : names[j] = names[k]})

DupSuffix == ":dup"

\* "{}:dup{}".format(marker, counter[marker])
NewName(names, k) == names[k] \o DupSuffix \o FormatInt(DupCount(names, k))

RenameMarkers(names) ==
    [k \in 1..Len(names) |->
        IF Duplicated(names, k) THEN NewName(names, k) ELSE names[k]]

\* self._dup_markers: marker -> its new names, in file order
DupMarkers(names) ==
    LET dups == {names[k] : k \in {j \in 1..Len(names) : Duplicated(names, j)}}
        rows(m) == SelectSeq([k \in 1..Len(names) |-> k], LAMBDA k : names[k] = m)
    IN  [m \in dups |-> [i \in 1..Len(rows(m)) |-> NewName(names, rows(m)[i])]]

\* duplicated(["chrom", "pos"], keep=False)
Multiallelic(df, k) ==
    \E j \in 1..Len(df.rows) :
        /\ j # k
        /\ Cell(df, j, "chrom") = Cell(df, k, "chrom")
        /\ Cell(df, j, "pos") = Cell(df, k, "pos")

\* the index table of an opened reader, names given
IndexTable(df, names) ==
    [k \in 1..Len(df.rows) |->
        [name |-> names[k], chrom |-> Cell(df, k, "chrom"), pos |-> Cell(df, k, "pos"),
         seek |-> Cell(df, k, "seek"), multiallelic |-> Multiallelic(df, k)]]

NoResult == [status |-> "none", value |-> <<>>]
Returned(v) == [status |-> "ok", value |-> v]
Raised(e) == [status |-> e, value |-> <<>>]

\* what a read gives: the result, the cursor it leaves, the warnings it logs
Outcome(res, cur, warned) == [res |-> res, cur |-> cur, warned |-> warned]

(***************************************************************************)
(* Reads                                                                   *)
(***************************************************************************)
\* variant_info of a file without index
NoRow == [name |-> "", chrom |-> 0, pos |-> 0, seek |-> 0, multiallelic |-> FALSE]

\* the name check of _fix_genotypes_object
NameSynced(row_name, line_name) == StartsWith(row_name, line_name)

\* a fix that renames the record and leaves its flag as decoded
_fix_genotypes_object_Unflagged(g, vi) ==
    IF has_index /\ vi.name # g.variant.name /\ ~NameSynced(vi.name, g.variant.name)
    THEN [status |-> "ValueError", g |-> g, warned |-> 0]
    ELSE [status |-> "ok",
          g |-> IF has_index THEN [g EXCEPT !.variant.name = vi.name] ELSE g,
          warned |-> IF has_index /\ index_has_location THEN 0 ELSE 1]

_fix_genotypes_object(g, vi) ==
    IF has_index /\ vi.name # g.variant.name /\ ~NameSynced(vi.name, g.variant.name)
    THEN [status |-> "ValueError", g |-> g, warned |-> 0]
    ELSE LET named == IF has_index /\ vi.name # g.variant.name
                      THEN [g EXCEPT !.variant.name = vi.name]
                      ELSE g
         IN  IF has_index /\ index_has_location
             THEN [status |-> "ok",
                   g |-> [named EXCEPT !.multiallelic = vi.multiallelic],
                   warned |-> 0]
             ELSE [status |-> "ok", g |-> named, warned |-> 1]

\* self._impute2_file.seek(seek); self._impute2_file.readline(): the line read
\* (0: the empty string of the end of the file) and the cursor after it
SeekReadline(seek) ==
    LET k == LineAt(file, seek)
    IN  [line |-> k, cur |-> IF k = 0 THEN seek ELSE seek + LineLen(file[k])]

\* get_variant_by_name, from "Seeking to the right place" on: one row read and fixed
ReadRow(vi) ==
    LET rd == SeekReadline(vi.seek)
    IN  IF rd.line = 0
        THEN Outcome(Raised("IndexError"), rd.cur, 0)
        ELSE LET fx == _fix_genotypes_object(
                           _parse_impute2_line(file[rd.line], prob_t), vi)
             IN  IF fx.status = "ok"
                 THEN Outcome(Returned(<<fx.g>>), rd.cur, fx.warned)
                 ELSE Outcome(Raised(fx.status), rd.cur, fx.warned)

\* self._impute2_index.loc[name, :]: the row's number, 0 for KeyError
Loc(name) ==
    IF \E k \in 1..Len(impute2_index) : impute2_index[k].name = name
    THEN CHOOSE k \in 1..Len(impute2_index) : impute2_index[k].name = name
    ELSE 0

\* a mutant: the map of the duplicated markers is not kept
get_duplicated_markers_Forgotten == <<>>

get_duplicated_markers == IF has_duplicated THEN dup_markers ELSE <<>>

RECURSIVE ReadAliases(_, _)
\* [self.get_variant_by_name(dup_name).pop() for dup_name in aliases]
ReadAliases(aliases, cur) ==
    IF aliases = <<>> THEN Outcome(Returned(<<>>), cur, 0)
    ELSE LET k == Loc(Head(aliases))
             first == IF k = 0 THEN Outcome(Raised("IndexError"), cur, 0)
                      ELSE ReadRow(impute2_index[k])
         IN  IF first.res.status # "ok" THEN first
             ELSE LET rest == ReadAliases(Tail(aliases), first.cur)
                  IN  IF rest.res.status # "ok"
                      THEN Outcome(rest.res, rest.cur, first.warned + rest.warned)
                      ELSE Outcome(Returned(first.res.value \o rest.res.value),
                                   rest.cur, first.warned + rest.warned)

get_variant_by_name(name) ==
    IF ~has_index THEN Outcome(Raised("NotImplementedError"), cursor, 0)
    ELSE IF Loc(name) # 0 THEN ReadRow(impute2_index[Loc(name)])
    ELSE IF name \in DOMAIN get_duplicated_markers
    THEN ReadAliases(get_duplicated_markers[name], cursor)
    ELSE Outcome(Returned(<<>>), cursor, 0)

\* _get_biallelic_variant
_get_biallelic_variant(variant, info) ==
    IF info.multiallelic THEN Outcome(Raised("AssertionError"), cursor, 0)
    ELSE LET rd == SeekReadline(info.seek)
         IN  IF rd.line = 0 THEN Outcome(Raised("IndexError"), rd.cur, 0)
             ELSE LET g == _parse_impute2_line(file[rd.line], prob_t)
                  IN  IF _encode_alleles(<<g.reference, g.coded>>) # variant.alleles
                      THEN Outcome(Returned(<<>>), rd.cur, 0)
                      ELSE Outcome(Returned(<<g>>), rd.cur, 0)

\* a mutant: the alleles are compared as in _get_biallelic_variant
AllelesIncluded_Equal(g, variant) ==
    _encode_alleles(<<g.reference, g.coded>>) = variant.alleles

\* row_alleles.issubset(variant.alleles_set)
AllelesIncluded(g, variant) ==
    alleles_set(_encode_alleles(<<g.reference, g.coded>>))
        \subseteq alleles_set(variant.alleles)

\* one turn of either loop of _get_multialleic_variant
MultiallelicRow(variant, row) ==
    IF ~row.multiallelic THEN Outcome(Raised("AssertionError"), cursor, 0)
    ELSE LET rd == SeekReadline(row.seek)
         IN  IF rd.line = 0 THEN Outcome(Raised("IndexError"), rd.cur, 0)
             ELSE LET g == _parse_impute2_line(file[rd.line], prob_t)
                      fx == _fix_genotypes_object(g, row)
                  IN  IF /\ variant.alleles # NoAlleles
                         /\ ~AllelesIncluded(g, variant)
                      THEN Outcome(Returned(<<>>), rd.cur, 0)
                      ELSE IF fx.status = "ok"
                      THEN Outcome(Returned(<<fx.g>>), rd.cur, fx.warned)
                      ELSE Outcome(Raised(fx.status), rd.cur, fx.warned)

RECURSIVE _get_multialleic_variant(_, _)
_get_multialleic_variant(variant, info) ==
    IF info = <<>> THEN Outcome(Returned(<<>>), cursor, 0)
    ELSE LET first == MultiallelicRow(variant, Head(info))
         IN  IF first.res.status # "ok" \/ Tail(info) = <<>> THEN first
             ELSE LET rest == _get_multialleic_variant(variant, Tail(info))
                  IN  IF rest.res.status # "ok"
                      THEN Outcome(rest.res, rest.cur, first.warned + rest.warned)
                      ELSE Outcome(Returned(first.res.value \o rest.res.value),
                                   rest.cur, first.warned + rest.warned)

\* the index rows at the variant's chromosome and position
VariantInfo(variant) ==
    SelectSeq(impute2_index,
              LAMBDA r : r.chrom = CHROM_STR_TO_INT(variant.chrom) /\ r.pos = variant.pos)

get_variant_genotypes(variant) ==
    IF ~has_index THEN Outcome(Raised("NotImplementedError"), cursor, 0)
    ELSE LET variant_info == VariantInfo(variant)
         IN  IF Len(variant_info) = 0 THEN Outcome(Returned(<<>>), cursor, 0)
             ELSE IF Len(variant_info) = 1
             THEN _get_biallelic_variant(variant, variant_info[1])
             ELSE _get_multialleic_variant(variant, variant_info)

\* a mutant: the start of the region is excluded
Required_Exclusive(chrom, start, end) ==
    SelectSeq(impute2_index,
              LAMBDA r : r.chrom = CHROM_STR_TO_INT(chrom) /\ start < r.pos /\ r.pos <= end)

\* the index rows of a region
Required(chrom, start, end) ==
    SelectSeq(impute2_index,
              LAMBDA r : r.chrom = CHROM_STR_TO_INT(chrom) /\ start <= r.pos /\ r.pos <= end)

\* one turn of the loop of get_variants_in_region: get_variant_by_name(name,
\* variant_info), then _fix_genotypes_object once more on what it returned
RegionRow(vi) ==
    LET got == ReadRow(vi)
    IN  IF got.res.status # "ok" THEN got
        ELSE LET fx == _fix_genotypes_object(got.res.value[1], vi)
             IN  IF fx.status = "ok"
                 THEN Outcome(Returned(<<fx.g>>), got.cur, got.warned + fx.warned)
                 ELSE Outcome(Raised(fx.status), got.cur, got.warned + fx.warned)

RECURSIVE RegionRows(_)
\* the records yielded, in order; an exception ends the generator and keeps in
\* value what it had yielded
RegionRows(rows) ==
    IF rows = <<>> THEN Outcome(Returned(<<>>), cursor, 0)
    ELSE LET first == RegionRow(Head(rows))
         IN  IF first.res.status # "ok" \/ Tail(rows) = <<>> THEN first
             ELSE LET rest == RegionRows(Tail(rows))
                  IN  Outcome([status |-> rest.res.status,
                               value |-> first.res.value \o rest.res.value],
                              rest.cur, first.warned + rest.warned)

\* a mutant: the check of has_index is left out
get_variants_in_region_Unchecked(chrom, start, end) ==
    RegionRows(Required(chrom, start, end))

\* get_variants_in_region, consumed to its end
get_variants_in_region(chrom, start, end) ==
    IF ~has_index THEN Outcome(Raised("NotImplementedError"), cursor, 0)
    ELSE IF ~index_has_location THEN Outcome(Raised("NotImplementedError"), cursor, 0)
    ELSE RegionRows(Required(chrom, start, end))

\* f.read(1024)
ReadChunk == 1024

RECURSIVE VariantRows(_)
VariantRows(rows) ==
    IF rows = <<>> THEN Outcome(Returned(<<>>), cursor, 0)
    ELSE LET k == LineAt(file, Head(rows).seek)
             cur == Min(Head(rows).seek + ReadChunk, FileSize(file))
         IN  IF k = 0 THEN Outcome(Raised("ValueError"), cur, 0)
             ELSE LET v == Variant(file[k][2], CHROM_STR_ENCODE(file[k][1]),
                                   ParseInt(file[k][3]), <<file[k][4], file[k][5]>>)
                  IN  IF Tail(rows) = <<>> THEN Outcome(Returned(<<v>>), cur, 0)
                      ELSE LET rest == VariantRows(Tail(rows))
                           IN  Outcome([status |-> rest.res.status,
                                        value |-> <<v>> \o rest.res.value],
                                       rest.cur, 0)

\* iter_variants, consumed to its end
iter_variants ==
    IF ~has_index THEN Outcome(Raised("NotImplementedError"), cursor, 0)
    ELSE VariantRows(impute2_index)

(***************************************************************************)
(* What the caller asks                                                    *)
(***************************************************************************)
LookupNames == {"r", "rs", "r:dup1", "q"}

\* Variant(None, chrom, pos, alleles) as given to get_variant_genotypes
VariantRequests ==
    {Variant("", "1", p, a) :
        p \in {100, 200}, a \in {NoAlleles, <<"T", "A">>, <<"T", "G", "A">>}}
    \cup {Variant("", "X", 100, <<"T", "A">>)}

\* <<chrom, start, end>>
RegionRequests ==
    {<<"1", 100, 150>>, <<"1", 150, 200>>, <<"1", 100, 200>>,
     <<"1", 101, 199>>, <<"X", 100, 200>>}

Init ==
    /\ file \in Files
    /\ sidecar = NoFile
    /\ rstate = "none"
    /\ has_index = FALSE
    /\ impute2_index = <<>>
    /\ index_has_location = FALSE
    /\ has_duplicated = FALSE
    /\ dup_markers = <<>>
    /\ cursor = 0
    /\ scan_pc = "none"
    /\ scan_i = 0
    /\ scan_clean = TRUE
    /\ scan_out = <<>>
    /\ op = "none"
    /\ arg = <<>>
    /\ result = NoResult
    /\ warnings = 0
    /\ d_prob = <<>>
    /\ d_t = 0
    /\ d_out = <<>>

\* the columns an index is asked with: those of the reader, or the name alone
IndexColumns ==
    {[cols |-> <<0, 1, 2>>, names |-> <<"chrom", "name", "pos">>],
     [cols |-> <<1>>, names |-> <<"name">>]}

\* generate_index(fn, cols, names): builds the index of the data file and writes
\* the side-car; a reader looks for the side-car when it is constructed only
GenerateIndex ==
    /\ rstate = "none"
    /\ ~sidecar.exists
    /\ \E c \in IndexColumns :
           sidecar' = write_index(generate_index(file, c.cols, c.names))
    /\ UNCHANGED <<file, reader_vars, cursor, scan_pc, scan_i, scan_clean,
                   scan_out, op, arg, result, warnings, dosage_vars>>

\* "chrom" in columns and "pos" in columns, once "name" is the index
HasLocation(df) == Column(df.columns, "chrom") # 0 /\ Column(df.columns, "pos") # 0

\* Impute2Reader(filename, sample_filename)
Open ==
    /\ rstate = "none"
    /\ has_index' = sidecar.exists
    /\ IF ~sidecar.exists
       THEN /\ rstate' = "open"
            /\ UNCHANGED <<impute2_index, index_has_location, has_duplicated,
                           dup_markers>>
       ELSE LET df == read_index(sidecar)
                names == Names(df)
            IN  IF ~IndexColumnsOk(df)
                THEN /\ rstate' = "failed"
                     /\ UNCHANGED <<impute2_index, index_has_location,
                                    has_duplicated, dup_markers>>
                ELSE IF UniqueNames(names)
                THEN /\ rstate' = "open"
                     /\ impute2_index' = IndexTable(df, names)
                     /\ index_has_location' = HasLocation(df)
                     /\ has_duplicated' = FALSE
                     /\ dup_markers' = <<>>
                ELSE /\ has_duplicated' = TRUE
                     /\ dup_markers' = DupMarkers(names)
                     /\ impute2_index' = IndexTable(df, RenameMarkers(names))
                     /\ IF UniqueNames(RenameMarkers(names))
                        THEN /\ rstate' = "open"
                             /\ index_has_location' = HasLocation(df)
                        ELSE /\ rstate' = "failed"
                             /\ UNCHANGED index_has_location
    /\ UNCHANGED <<file, sidecar, cursor, scan_pc, scan_i, scan_clean,
                   scan_out, op, arg, result, warnings, dosage_vars>>

\* a read other than the generator's own moves the cursor under a running scan
Disturb(cur) ==
    IF scan_pc = "running" /\ cur # cursor
    THEN /\ scan_clean' = FALSE
         /\ scan_out' = <<>>
    ELSE UNCHANGED <<scan_clean, scan_out>>

\* a random-access call: its result, the cursor and the warnings it leaves
Call(name, a, out) ==
    /\ rstate = "open"
    /\ op' = name
    /\ arg' = a
    /\ result' = out.res
    /\ cursor' = out.cur
    /\ warnings' = warnings + out.warned
    /\ Disturb(out.cur)
    /\ UNCHANGED <<file, sidecar, reader_vars, scan_pc, scan_i, dosage_vars>>

GetVariantByName ==
    \E name \in LookupNames :
        \E out \in {get_variant_by_name(name)} :
            Call("get_variant_by_name", name, out)

GetVariantGenotypes ==
    \E variant \in VariantRequests :
        \E out \in {get_variant_genotypes(variant)} :
            Call("get_variant_genotypes", variant, out)

GetVariantsInRegion ==
    \E r \in RegionRequests :
        \E out \in {get_variants_in_region(r[1], r[2], r[3])} :
            Call("get_variants_in_region", r, out)

IterVariants ==
    \E out \in {iter_variants} :
        Call("iter_variants", <<>>, out)

\* iter_genotypes(): the generator is created; nothing runs before its first next()
IterGenotypes ==
    /\ rstate = "open"
    /\ scan_pc # "created"
    /\ scan_pc' = "created"
    /\ scan_i' = 0
    /\ scan_clean' = TRUE
    /\ scan_out' = <<>>
    /\ op' = "iter_genotypes"
    /\ arg' = <<>>
    /\ result' = NoResult
    /\ UNCHANGED <<file, sidecar, reader_vars, cursor, warnings, dosage_vars>>

\* one turn of the loop of iter_genotypes, from the cursor at `from`
ScanStep(from) ==
    LET k == LineAt(file, from)
    IN  IF k = 0
        THEN [pc |-> "done", res |-> Raised("StopIteration"), cur |-> from, warned |-> 0]
        ELSE LET g == _parse_impute2_line(file[k], prob_t)
                 cur == from + LineLen(file[k])
             IN  IF has_index /\ scan_i >= Len(impute2_index)
                 THEN [pc |-> "failed", res |-> Raised("IndexError"), cur |-> cur,
                       warned |-> 0]
                 ELSE LET fx == _fix_genotypes_object(
                                    g, IF has_index THEN impute2_index[scan_i + 1]
                                       ELSE NoRow)
                      IN  IF fx.status = "ok"
                          THEN [pc |-> "running", res |-> Returned(<<fx.g>>),
                                cur |-> cur, warned |-> fx.warned]
                          ELSE [pc |-> "failed", res |-> Raised(fx.status),
                                cur |-> cur, warned |-> fx.warned]

\* next() on the generator of iter_genotypes; the first one seeks to 0
ScanNext ==
    /\ rstate = "open"
    /\ scan_pc \in {"created", "running"}
    /\ warnings < MaxWarnings
    /\ \E st \in {ScanStep(IF scan_pc = "created" THEN 0 ELSE cursor)} :
           /\ scan_pc' = st.pc
           /\ result' = st.res
           /\ cursor' = st.cur
           /\ warnings' = warnings + st.warned
           /\ scan_i' = IF st.res.status = "StopIteration" THEN scan_i ELSE scan_i + 1
           /\ scan_out' = IF scan_clean /\ st.res.status = "ok"
                          THEN scan_out \o st.res.value ELSE scan_out
    /\ op' = "next"
    /\ arg' = <<>>
    /\ UNCHANGED <<file, sidecar, reader_vars, scan_clean, dosage_vars>>

\* the data file is rewritten after it was indexed: one line changes, and every
\* line still starts where it started
ReplaceFile ==
    /\ rstate = "none"
    /\ sidecar.exists
    /\ sidecar = write_index(generate_index(file, <<0, 1, 2>>, <<"chrom", "name", "pos">>))
    /\ \E f \in FilesOfLen(Len(file)) :
           /\ Cardinality({k \in 1..Len(file) : f[k] # file[k]}) = 1
           /\ \A k \in 1..Len(file) : Offset(f, k) = Offset(file, k)
           /\ file' = f
    /\ UNCHANGED <<sidecar, reader_vars, cursor, scan_pc, scan_i, scan_clean,
                   scan_out, op, arg, result, warnings, dosage_vars>>

(***************************************************************************)
(* Dosage decoding alone                                                   *)
(***************************************************************************)
\* "d.dd" of a probability in hundredths
ProbText(p) ==
    FormatInt(p \div 100) \o "." \o FormatInt((p % 100) \div 10) \o FormatInt(p % 10)

\* the triples <<p_hom_ref, p_het, p_hom_coded>> samples are drawn from
ProbTriples ==
    {<<5, 5, 90>>, <<5, 90, 5>>, <<90, 5, 5>>,
     <<30, 30, 40>>, <<30, 40, 30>>, <<40, 30, 30>>,
     <<0, 0, 100>>, <<0, 100, 0>>, <<100, 0, 0>>,
     <<0, 0, 0>>, <<89, 6, 5>>}

Thresholds == {0, 40, 90}

\* the probability fields of a line with these triples
ProbFields(triples) ==
    [j \in 1..(3 * Len(triples)) |-> ProbText(triples[((j - 1) \div 3) + 1][((j - 1) % 3) + 1])]

InitDosage ==
    /\ file \in FilesOfLen(1)
    /\ sidecar = NoFile
    /\ rstate = "none"
    /\ has_index = FALSE
    /\ impute2_index = <<>>
    /\ index_has_location = FALSE
    /\ has_duplicated = FALSE
    /\ dup_markers = <<>>
    /\ cursor = 0
    /\ scan_pc = "none"
    /\ scan_i = 0
    /\ scan_clean = TRUE
    /\ scan_out = <<>>
    /\ op = "none"
    /\ arg = <<>>
    /\ result = NoResult
    /\ warnings = 0
    /\ d_prob \in UNION {[1..n -> ProbTriples] : n \in 0..MaxSamples}
    /\ d_t \in Thresholds
    /\ d_out = <<>>

\* _parse_impute2_line on a line of the file with the drawn probabilities
DecodeLine ==
    /\ op = "none"
    /\ op' = "_parse_impute2_line"
    /\ d_out' = _parse_impute2_line(SubSeq(file[1], 1, 5) \o ProbFields(d_prob), d_t).dosage
    /\ UNCHANGED <<file, sidecar, reader_vars, cursor, scan_pc, scan_i, scan_clean,
                   scan_out, arg, result, warnings, d_prob, d_t>>

Next ==
    \/ GenerateIndex
    \/ Open
    \/ GetVariantByName
    \/ GetVariantGenotypes
    \/ GetVariantsInRegion
    \/ IterVariants
    \/ IterGenotypes
    \/ ScanNext

Spec == Init /\ [][Next]_vars

\* the side-car may be older than the data file
MaxStaleRecords == 2

InitStale == Init /\ Len(file) <= MaxStaleRecords

NextStale ==
    \/ Next
    \/ ReplaceFile

SpecStale == InitStale /\ [][NextStale]_vars

NextDosage == DecodeLine

SpecDosage == InitDosage /\ [][NextDosage]_vars

(***************************************************************************)
(* What the claims are stated with                                         *)
(***************************************************************************)
RandomAccessOps ==
    {"get_variant_by_name", "get_variant_genotypes", "get_variants_in_region",
     "iter_variants"}

\* the record that lies at the byte offset of index row k, named and flagged
\* by that row
Stored(k) ==
    LET line == file[LineAt(file, impute2_index[k].seek)]
    IN  [variant |-> [name |-> impute2_index[k].name,
                      chrom |-> CHROM_STR_ENCODE(line[1]),
                      pos |-> ParseInt(line[3]),
                      alleles |-> _encode_alleles(<<line[4], line[5]>>)],
         dosage |-> Dosage(SubSeq(line, 6, Len(line)), prob_t),
         reference |-> line[4],
         coded |-> line[5],
         multiallelic |-> impute2_index[k].multiallelic]

\* the lines of the file that carry an identifier, in file order
Occurrences(name) ==
    SelectSeq([k \in 1..Len(file) |-> k], LAMBDA k : file[k][2] = name)

\* the 1-based rank of line k among the lines with its identifier
Rank(k) == Cardinality({j \in 1..k : file[j][2] = file[k][2]})

Alias(name, n) == name \o ":dup" \o FormatInt(n)

IndexNames == [k \in 1..Len(impute2_index) |-> impute2_index[k].name]

(***************************************************************************)
(* C1: on a reader without index, every random-access operation raises     *)
(* NotImplementedError and returns nothing; so does a region query on an   *)
(* index without chromosome and position columns.                          *)
(***************************************************************************)
C1_UnsupportedWithoutIndex ==
    /\ (rstate = "open" /\ ~has_index /\ op \in RandomAccessOps)
          => result = Raised("NotImplementedError")
    /\ (rstate = "open" /\ has_index /\ ~index_has_location
            /\ op = "get_variants_in_region")
          => result = Raised("NotImplementedError")

C1_Witness ==
    /\ rstate = "open"
    /\ ~has_index
    /\ op = "get_variants_in_region"
    /\ result = Raised("NotImplementedError")

(***************************************************************************)
(* C2: a lookup by identifier on an indexed reader, wherever it comes in   *)
(* a sequence of reads, returns the one record at the entry's offset when  *)
(* the identifier is a key of the index, else one record per occurrence,   *)
(* in file order, when it is an original colliding name, else nothing.     *)
(***************************************************************************)
C2_LookupByName ==
    (rstate = "open" /\ has_index /\ op = "get_variant_by_name") =>
        IF Loc(arg) # 0
        THEN result = Returned(<<Stored(Loc(arg))>>)
        ELSE IF Len(Occurrences(arg)) > 1
        THEN result = Returned([i \in 1..Len(Occurrences(arg)) |->
                                   Stored(Occurrences(arg)[i])])
        ELSE result = Returned(<<>>)

C2_Witness ==
    /\ rstate = "open"
    /\ has_index
    /\ op = "get_variant_by_name"
    /\ Loc(arg) = 0
    /\ Len(result.value) >= 2
    /\ scan_pc = "running"
    /\ scan_i >= 1

(***************************************************************************)
(* C3: once the index is loaded, every occurrence of an identifier that    *)
(* occurs more than once is named <identifier>:dupN, N its 1-based rank in *)
(* file order, the other identifiers are unchanged, and the duplicate map  *)
(* gives every colliding identifier its aliases :dup1, :dup2, ... in order.*)
(***************************************************************************)
C3_DuplicatesRenamed ==
    (rstate = "open" /\ has_index) =>
        /\ Len(impute2_index) = Len(file)
        /\ \A k \in 1..Len(file) :
               impute2_index[k].name =
                   IF Len(Occurrences(file[k][2])) > 1
                   THEN Alias(file[k][2], Rank(k))
                   ELSE file[k][2]
        /\ DOMAIN get_duplicated_markers =
               {file[k][2] : k \in {j \in 1..Len(file) : Len(Occurrences(file[j][2])) > 1}}
        /\ \A m \in DOMAIN get_duplicated_markers :
               get_duplicated_markers[m] =
                   [n \in 1..Len(Occurrences(m)) |-> Alias(m, n)]

C3_Witness ==
    /\ rstate = "open"
    /\ has_index
    /\ "r" \in DOMAIN get_duplicated_markers
    /\ get_duplicated_markers["r"] = <<"r:dup1", "r:dup2", "r:dup3">>

(***************************************************************************)
(* C4: whatever the identifiers of the file, the identifiers of the index  *)
(* are pairwise distinct after the renaming, and the reader opens.         *)
(***************************************************************************)
C4_RenamedNamesUnique ==
    (rstate # "none" /\ has_index /\ IndexColumnsOk(read_index(sidecar))) =>
        /\ UniqueNames(IndexNames)
        /\ rstate = "open"

(***************************************************************************)
(* C5: a lookup by exact variant with exactly one index entry at the       *)
(* chromosome and position returns nothing only if alleles were asked and  *)
(* differ from the decoded pair; else it returns the one decoded record.   *)
(***************************************************************************)
\* the record decoded at the offset of an index row, as _parse_impute2_line gives it
Decoded(row) == _parse_impute2_line(file[LineAt(file, row.seek)], prob_t)

C5_SingleEntryLookup ==
    (rstate = "open" /\ has_index /\ op = "get_variant_genotypes"
        /\ Len(VariantInfo(arg)) = 1) =>
        LET g == Decoded(VariantInfo(arg)[1])
        IN  IF arg.alleles # NoAlleles /\ g.variant.alleles # arg.alleles
            THEN result = Returned(<<>>)
            ELSE result = Returned(<<g>>)

(***************************************************************************)
(* C6: a lookup by exact variant with two or more index entries at the     *)
(* chromosome and position returns, in index order, the records of the     *)
(* site whose allele pair is included in the alleles asked, or all the     *)
(* records of the site when no alleles were asked.                         *)
(***************************************************************************)
\* the numbers of the index rows at a chromosome (as the index holds it) and position
RowsAt(chrom, pos) ==
    SelectSeq([k \in 1..Len(impute2_index) |-> k],
              LAMBDA k : impute2_index[k].chrom = chrom /\ impute2_index[k].pos = pos)

\* the index's integer of a chromosome token
ChromCode(tok) == IF tok = "X" THEN 23 ELSE ParseInt(tok)

C6_MultiallelicLookup ==
    (rstate = "open" /\ has_index /\ op = "get_variant_genotypes"
        /\ Len(RowsAt(ChromCode(arg.chrom), arg.pos)) >= 2) =>
        LET site == RowsAt(ChromCode(arg.chrom), arg.pos)
            kept == SelectSeq(site,
                        LAMBDA k : \/ arg.alleles = NoAlleles
                                   \/ {Stored(k).reference, Stored(k).coded}
                                         \subseteq Range(arg.alleles))
        IN  result = Returned([i \in 1..Len(kept) |-> Stored(kept[i])])

C6_Witness ==
    /\ rstate = "open"
    /\ has_index
    /\ op = "get_variant_genotypes"
    /\ arg.alleles = <<"A", "T">>
    /\ Len(RowsAt(ChromCode(arg.chrom), arg.pos)) = 3
    /\ Len(result.value) = 1
    /\ result.value[1].coded = "T"

(***************************************************************************)
(* C7: a region query on an indexed reader yields one record for every     *)
(* index row of the chromosome with start <= position <= end, in index     *)
(* order, none for the other rows, and each record carries its row's       *)
(* multiallelic flag.                                                      *)
(***************************************************************************)
C7_RegionQuery ==
    (rstate = "open" /\ has_index /\ op = "get_variants_in_region") =>
        LET inside == SelectSeq([k \in 1..Len(impute2_index) |-> k],
                          LAMBDA k : /\ impute2_index[k].chrom = ChromCode(arg[1])
                                     /\ arg[2] <= impute2_index[k].pos
                                     /\ impute2_index[k].pos <= arg[3])
        IN  /\ result = Returned([i \in 1..Len(inside) |-> Stored(inside[i])])
            /\ \A i \in 1..Len(inside) :
                   result.value[i].multiallelic = impute2_index[inside[i]].multiallelic

\* a row of the chromosome is left out for its position, another is of another
\* chromosome, and a multiallelic pair at the start of the region is yielded
C7_Witness ==
    /\ rstate = "open"
    /\ has_index
    /\ op = "get_variants_in_region"
    /\ arg = <<"1", 100, 150>>
    /\ Len(impute2_index) = 3
    /\ \E k \in 1..3 : impute2_index[k].chrom = 1 /\ impute2_index[k].pos = 200
    /\ \E k \in 1..3 : impute2_index[k].chrom = 23
    /\ Len(result.value) = 1
    /\ result.value[1].variant.pos = 100

(***************************************************************************)
(* C8: the dosage of sample i is 2 * p_hom_coded[i] + p_het[i]; with a     *)
(* threshold t > 0 it is missing exactly when the three probabilities of   *)
(* the sample are all below t, and with t = 0 no sample is masked.         *)
(* (0.05, 0.05, 0.90) with t = 0.9 gives 1.85; (0.3, 0.3, 0.4) with        *)
(* t = 0.9 gives missing.                                                  *)
(***************************************************************************)
C8_Dosage ==
    (op = "_parse_impute2_line") =>
        /\ Len(d_out) = Len(d_prob)
        /\ \A i \in 1..Len(d_prob) :
               LET p == d_prob[i]
               IN  /\ d_out[i] = IF d_t > 0 /\ p[1] < d_t /\ p[2] < d_t /\ p[3] < d_t
                                 THEN NaN
                                 ELSE Num(2 * p[3] + p[2])
                   /\ d_t = 0 => ~d_out[i].nan
                   /\ (d_t = 90 /\ p = <<5, 5, 90>>) => d_out[i] = Num(185)
                   /\ (d_t = 90 /\ p = <<30, 30, 40>>) => d_out[i] = NaN

C8_Witness ==
    /\ op = "_parse_impute2_line"
    /\ d_t = 90
    /\ d_prob = << <<5, 5, 90>>, <<30, 30, 40>> >>
    /\ d_out = <<Num(185), NaN>>

(***************************************************************************)
(* C9: a read through the index that finds, at an entry's offset, a record *)
(* whose identifier is neither the entry's identifier nor the identifier   *)
(* the entry is a :dupN alias of, raises ValueError (the index is not      *)
(* synced) and returns no record.                                          *)
(***************************************************************************)
\* the identifier of index row k disagrees with the line at its offset
Desynced(k) ==
    LET line == file[LineAt(file, impute2_index[k].seek)]
    IN  /\ impute2_index[k].name # line[2]
        /\ \A n \in 1..Len(impute2_index) : impute2_index[k].name # Alias(line[2], n)

C9_ByName ==
    (rstate = "open" /\ has_index /\ op = "get_variant_by_name" /\ Loc(arg) # 0 /\ Desynced(Loc(arg)))
        => result = Raised("ValueError")

C9_ByVariant ==
    (rstate = "open" /\ has_index /\ op = "get_variant_genotypes"
        /\ \E i \in 1..Len(RowsAt(ChromCode(arg.chrom), arg.pos)) :
               Desynced(RowsAt(ChromCode(arg.chrom), arg.pos)[i]))
        => result = Raised("ValueError")

C9_ByRegion ==
    (rstate = "open" /\ has_index /\ op = "get_variants_in_region"
        /\ \E k \in 1..Len(impute2_index) :
               /\ impute2_index[k].chrom = ChromCode(arg[1])
               /\ arg[2] <= impute2_index[k].pos
               /\ impute2_index[k].pos <= arg[3]
               /\ Desynced(k))
        => result.status = "ValueError"

C9_ByScan ==
    (rstate = "open" /\ has_index /\ op = "next" /\ scan_clean
        /\ result.status \in {"ok", "ValueError"} /\ Desynced(scan_i))
        => result = Raised("ValueError")

C9_SyncErrorOnMismatch ==
    C9_ByName /\ C9_ByVariant /\ C9_ByRegion /\ C9_ByScan

(***************************************************************************)
(* C10: once the index is built, written to the side-car and read back by  *)
(* a reader, the lookup by any identifier of the index returns the very    *)
(* record (identifier, chromosome, position, alleles, dosages, flag) that  *)
(* a full scan of the reader yields for that identifier.                   *)
(***************************************************************************)
C10_LookupEqualsScan ==
    (rstate = "open" /\ has_index /\ op = "get_variant_by_name" /\ Loc(arg) # 0
        /\ scan_pc = "done" /\ scan_clean) =>
        /\ Cardinality({i \in 1..Len(scan_out) : scan_out[i].variant.name = arg}) = 1
        /\ \A i \in 1..Len(scan_out) :
               scan_out[i].variant.name = arg => result = Returned(<<scan_out[i]>>)

C10_Witness ==
    /\ rstate = "open"
    /\ has_index
    /\ op = "get_variant_by_name"
    /\ arg = "r:dup1"
    /\ scan_pc = "done"
    /\ scan_clean
    /\ Len(scan_out) = 3
    /\ result = Returned(<<scan_out[2]>>)
    /\ scan_out[2].multiallelic

(***************************************************************************)
(* C11: a full scan of an indexed file that no other read interrupts       *)
(* yields the records of the file from the first one, in file order: the   *)
(* i-th record it yields is the i-th line decoded, with the multiallelic   *)
(* flag of the i-th index row; it never fails, and once exhausted it has   *)
(* yielded one record per line.                                            *)
(***************************************************************************)
\* record i of the scan is line i of the file, flagged by index row i
ScannedInOrder(i) ==
    /\ scan_out[i].multiallelic = impute2_index[i].multiallelic
    /\ [scan_out[i] EXCEPT !.multiallelic = FALSE, !.variant.name = file[i][2]]
           = _parse_impute2_line(file[i], prob_t)

C11_FullScanIndexed ==
    (rstate = "open" /\ has_index /\ scan_clean
        /\ scan_pc \in {"running", "done", "failed"}) =>
        /\ scan_pc # "failed"
        /\ Len(scan_out) = scan_i
        /\ scan_i <= Len(file)
        /\ scan_pc = "done" => scan_i = Len(file)
        /\ \A i \in 1..Len(scan_out) : ScannedInOrder(i)

C11_Witness ==
    /\ rstate = "open"
    /\ has_index
    /\ scan_clean
    /\ scan_pc = "done"
    /\ op = "next"
    /\ result = Raised("StopIteration")
    /\ Len(file) = 3
    /\ Len(scan_out) = 3
    /\ scan_out[1].multiallelic
    /\ scan_out[2].multiallelic
    /\ ~scan_out[3].multiallelic
    /\ scan_out[3].variant.chrom = "X"

(***************************************************************************)
(* C12: a full scan of a file without index yields every record with the   *)
(* multiallelic flag false, and logs the warning that multiallelic         *)
(* variants are not detected at most once, however many records it reads.  *)
(* The claim is stated for the first scan that logs anything: all the      *)
(* warnings logged so far were logged by the scan in progress.             *)
(***************************************************************************)
\* the records of an unindexed scan are yielded with the flag false
C12_FlagFalse ==
    (rstate = "open" /\ ~has_index) =>
        \A i \in 1..Len(scan_out) : ~scan_out[i].multiallelic

C12_WarnedOnce ==
    (rstate = "open" /\ ~has_index /\ scan_pc \in {"running", "done"}
        /\ warnings = Len(scan_out)) =>
        /\ C12_FlagFalse
        /\ warnings <= 1

(***************************************************************************)
(* C13: random-access reads made between two records of a full scan of an  *)
(* indexed file do not disturb the scan: whatever lookups by identifier,   *)
(* lookups by variant and region queries are interleaved with it, the i-th *)
(* record the scan yields is the i-th line of the file, flagged by the     *)
(* i-th index row, the scan does not fail, and it ends after one record    *)
(* per line.                                                               *)
(***************************************************************************)
\* the record the last next() returned is line scan_i, flagged by row scan_i
YieldedInOrder ==
    /\ scan_i <= Len(file)
    /\ scan_i <= Len(impute2_index)
    /\ result.value[1].multiallelic = impute2_index[scan_i].multiallelic
    /\ [result.value[1] EXCEPT !.multiallelic = FALSE, !.variant.name = file[scan_i][2]]
           = _parse_impute2_line(file[scan_i], prob_t)

C13_ScanUndisturbed ==
    (rstate = "open" /\ has_index /\ scan_pc \in {"running", "done", "failed"}) =>
        /\ scan_pc # "failed"
        /\ scan_pc = "done" => scan_i = Len(file)
        /\ (op = "next" /\ result.status = "ok") => YieldedInOrder

====
